---- MODULE Spec2Model ----
(***************************************************************************)
(* The alert ingestion / enrichment / fan-out pipeline of                  *)
(* keep/api/routes/alerts.py.                                              *)
(*                                                                         *)
(*   SpecPull    one call of pull_alerts_from_providers (the provider poll *)
(*               sweep with its compressed batch publisher)                *)
(*   SpecIngest  one call of handle_formatted_events (persist, single      *)
(*               alert publish, workflow dispatch, rules dispatch)         *)
(*   SpecOverlay calls of delete_alert and assign_alert on one overlay,    *)
(*               each a read of the overlay followed by a write of it;     *)
(*               calls in flight interleave between the two                *)
(*   SpecGetAll  one request of get_all_alerts, with the sweep it runs or  *)
(*               schedules                                                 *)
(*   SpecNormalize  one call of receive_event (with Grafana's format_alert *)
(*               as the provider's format step), of _get_alerts or of      *)
(*               __extract_rules                                           *)
(*                                                                         *)
(* Collaborators (provider factory, providers, the enrichment store, the   *)
(* session, pusher, the workflow manager, the rules engine) are calls that *)
(* either return or raise; which of the two is a nondeterministic choice   *)
(* of the step that makes the call.                                        *)
(***************************************************************************)
EXTENDS Integers, Sequences, FiniteSets, TLC

VARIABLES
    enrichments,    \* the enrichment store: fingerprint -> overlay mapping (rows that exist)
    sink,           \* every pusher_client.trigger call that returned, in order
    \* ---- pull_alerts_from_providers
    sync,           \* parameter sync
    pusher,         \* TRUE iff pusher_client is not None
    ppc,            \* position in pull_alerts_from_providers
    installed,      \* len(installed_providers)
    idx,            \* index of the provider of the current loop iteration
    alerts,         \* the current provider's alerts
    ak,             \* index of the next alert of the batch loop
    batch_send,
    previous_compressed_batch,
    new_compressed_batch,
    number_of_alerts_in_batch,
    sync_alerts,
    perr,           \* what pull_alerts_from_providers raised to its caller
    pulled,         \* history: what each provider's get_alerts returned
    outcome,        \* history: how each provider's loop iteration ended
    \* ---- handle_formatted_events
    formatted_events,
    ipc,            \* position in handle_formatted_events
    ei,             \* index of the next alert of the Stage A loop
    session_new,    \* rows added to the session and not committed
    db_alerts,      \* committed rows of the alert table
    wf_bound,       \* TRUE iff the local workflow_manager is bound
    wf_queue,       \* every insert_events call that returned: its alert list
    rules_input,    \* every run_rules call made: its alert list
    grouped_alerts,
    gi,             \* index of the next grouped alert to publish
    stageA,         \* history: "pending", "ok" or "failed", per stage
    stageB,
    stageC,
    calls,          \* history: every collaborator call made, and whether it raised
    \* ---- delete_alert, assign_alert
    requests,       \* the calls made so far, in arrival order: parameters, locals, position
    oplog,          \* history: every enrich_alert_db call that returned, in order
    budget,         \* calls of delete_alert / assign_alert still to arrive
    \* ---- get_all_alerts, receive_event
    gpc,            \* position in get_all_alerts
    response,       \* what the requester of the route is answered
    bg_tasks,       \* background_tasks: the tasks added and not started, in order
    \* ---- receive_event and the Grafana normalizers
    operation,      \* which of them is called
    body,           \* the request body of receive_event: what it can be read as
    raws,           \* the alerts of the payload, as the source gives them
    npc,            \* position in the operation
    result          \* what the normalizer returned, or that it raised

pullVars == <<sync, pusher, ppc, installed, idx, alerts, ak, batch_send,
              previous_compressed_batch, new_compressed_batch,
              number_of_alerts_in_batch, sync_alerts, perr, pulled, outcome>>

ingestVars == <<formatted_events, ipc, ei, session_new, db_alerts, wf_bound, wf_queue,
                rules_input, grouped_alerts, gi, stageA, stageB, stageC, calls>>

overlayVars == <<requests, oplog, budget>>

apiVars == <<gpc, response, bg_tasks>>

normVars == <<operation, body, raws, npc, result>>

vars == <<enrichments, sink, pullVars, ingestVars, overlayVars, apiVars, normVars>>

---------------------------------------------------------------------------
(* Bounds and inputs *)

\* the payload ceiling of the batch publisher
Ceiling == 10240

\* providers installed for the tenant, at most
MaxProviders == 2

\* alerts pulled in one sweep, over all providers, at most
MaxAlerts == 3

Fingerprints == {"fp1", "fp2"}

\* What one alert adds to the encoded length of a batch: a quarter of the ceiling,
\* three quarters of it (two such alerts overflow, a quarter more sits exactly at the
\* ceiling), one more than the ceiling (an alert that exceeds it alone).
Sizes == {Ceiling \div 4, 3 * (Ceiling \div 4), Ceiling + 1}

\* The fields an alert brings from its source, and the overlays a fingerprint may have.
RawEvent == [x |-> "raw"]

Overlays == {[x |-> "ovl", note |-> "n"]}

\* The stores: fp1 has an overlay, fp2 has one or none (a lookup of fp2 alone in the
\* first store finds no row; the stores with the two fingerprints swapped add nothing).
EnrichmentStores == UNION {[S -> Overlays] : S \in {{"fp1"}, Fingerprints}}

SeqsUpTo(S, n) == UNION {[1..m -> S] : m \in 0..n}

AlertKinds == [fingerprint : Fingerprints, size : Sizes]

\* Where an alert comes from: the provider of a loop iteration, a webhook delivery,
\* the rules engine.
Provider(p) == <<"provider", p>>

WebhookSource == <<"webhook", 0>>

RulesSource == <<"rules", 0>>

\* The alerts a source yields: alert i of source src.
MkAlerts(src, kinds) ==
    [i \in 1..Len(kinds) |->
        [src |-> src, n |-> i, fingerprint |-> kinds[i].fingerprint,
         size |-> kinds[i].size, pushed |-> FALSE, event |-> RawEvent]]

RECURSIVE SumSizes(_)
SumSizes(batch) ==
    IF batch = <<>> THEN 0 ELSE Head(batch).size + SumSizes(Tail(batch))

RECURSIVE Concat(_)
Concat(seqs) ==
    IF seqs = <<>> THEN <<>> ELSE Head(seqs) \o Concat(Tail(seqs))

---------------------------------------------------------------------------
(* Encoding and the live-feed sink *)

\* base64(zlib(json(batch))): the string decodes to the list; its length is what the
\* alerts of the list add up to.
Encode(batch) == [kind |-> "b64", alerts |-> batch, len |-> SumSizes(batch)]

\* the empty string ""
EmptyString == [kind |-> "b64", alerts |-> <<>>, len |-> 0]

\* the payload {} of async-done
EmptyObject == [kind |-> "obj", alerts |-> <<>>, len |-> 0]

Trigger(event, payload) ==
    [channel |-> "private-tenant", event |-> event, payload |-> payload]

\* __send_compressed_alerts: one trigger on async-alerts
SendCompressedAlerts(compressed_alerts_data) ==
    sink' = Append(sink, Trigger("async-alerts", compressed_alerts_data))

---------------------------------------------------------------------------
(* Enrichment *)

\* get_enrichments_from_db: the rows of the given fingerprints
GetEnrichments(fps) ==
    {[alert_fingerprint |-> fp, enrichments |-> enrichments[fp]] :
        fp \in fps \cap DOMAIN enrichments}

\* a merge in which the alert's own fields win over the overlay's
SetEnrichments_RawWins(event, enr) ==
    [f \in DOMAIN event \cup DOMAIN enr |->
        IF f \in DOMAIN event THEN event[f] ELSE enr[f]]

\* for enrichment in alert_enrichment.enrichments: set the enrichment
SetEnrichments(event, enr) ==
    [f \in DOMAIN event \cup DOMAIN enr |->
        IF f \in DOMAIN enr THEN enr[f] ELSE event[f]]

\* the row loop over one alert: every row of the alert's fingerprint is applied
EnrichAlert(alert, rows) ==
    IF \E r \in rows : r.alert_fingerprint = alert.fingerprint
    THEN LET r == CHOOSE r \in rows : r.alert_fingerprint = alert.fingerprint
         IN  [alert EXCEPT !.event = SetEnrichments(@, r.enrichments)]
    ELSE alert

\* a row loop that stops at the first alert
EnrichPulled_FirstOnly(as, rows) ==
    [i \in 1..Len(as) |-> IF i = 1 THEN EnrichAlert(as[i], rows) ELSE as[i]]

\* for alert in alerts: for alert_enrichment in alerts_enrichments_from_db: ...
EnrichPulled(as, rows) == [i \in 1..Len(as) |-> EnrichAlert(as[i], rows)]

---------------------------------------------------------------------------
(* pull_alerts_from_providers *)

PullIdle ==
    /\ sync = FALSE
    /\ pusher = TRUE
    /\ ppc = "idle"
    /\ installed = 0
    /\ idx = 0
    /\ alerts = <<>>
    /\ ak = 0
    /\ batch_send = <<>>
    /\ previous_compressed_batch = EmptyString
    /\ new_compressed_batch = EmptyString
    /\ number_of_alerts_in_batch = 0
    /\ sync_alerts = <<>>
    /\ perr = "none"
    /\ pulled = [p \in {} |-> <<>>]
    /\ outcome = [p \in {} |-> "none"]

PullInit ==
    /\ sync \in BOOLEAN
    /\ pusher \in BOOLEAN
    /\ ppc = "call"
    /\ installed = 0
    /\ idx = 0
    /\ alerts = <<>>
    /\ ak = 0
    /\ batch_send = <<>>
    /\ previous_compressed_batch = EmptyString
    /\ new_compressed_batch = EmptyString
    /\ number_of_alerts_in_batch = 0
    /\ sync_alerts = <<>>
    /\ perr = "none"
    /\ pulled = [p \in {} |-> <<>>]
    /\ outcome = [p \in {} |-> "none"]

batchVars == <<batch_send, previous_compressed_batch, new_compressed_batch,
               number_of_alerts_in_batch, ak>>

\* an exception leaves pull_alerts_from_providers
PullRaise(what) ==
    /\ ppc' = "raised"
    /\ perr' = what

\* the loop goes to its next provider, this one having ended as `how`
NextProvider(how) ==
    /\ outcome' = (idx :> how) @@ outcome
    /\ idx' = idx + 1
    /\ ppc' = "for"
    /\ UNCHANGED perr

\* a handler that re-raises instead of passing
ProviderExcept_Propagate(how) ==
    /\ PullRaise(how)
    /\ outcome' = (idx :> how) @@ outcome
    /\ UNCHANGED idx

\* except Exception as e: logger.warn(...); pass
ProviderExcept(how) == NextProvider(how)

\* a comparison against twice the ceiling
WithinCeiling_Doubled(compressed) == compressed.len <= 2 * Ceiling

\* a comparison that lets one character more through
WithinCeiling_OneMore(compressed) == compressed.len <= Ceiling + 1

\* len(new_compressed_batch) <= 10240
WithinCeiling(compressed) == compressed.len <= Ceiling

\* new_compressed_batch and len(new_compressed_batch) < 10240
RestToSend(compressed) == compressed # EmptyString /\ compressed.len < Ceiling

\* an extend at the front
SyncExtend_Prepend(acc, as) == as \o acc

\* sync_alerts.extend(alerts)
SyncExtend(acc, as) == acc \o as

\* a check that does not look at sync
NoPusherConfigured_AnyMode == ~pusher

\* if pusher_client is None and sync is False
NoPusherConfigured == ~pusher /\ ~sync

\* the configuration check, then the installed providers
PullCall ==
    /\ ppc = "call"
    /\ UNCHANGED <<ingestVars, overlayVars, apiVars, normVars>>
    /\ \/ /\ NoPusherConfigured
          /\ PullRaise("config")
          /\ UNCHANGED <<installed, idx>>
       \/ /\ ~NoPusherConfigured
          /\ PullRaise("enumerate")
          /\ UNCHANGED <<installed, idx>>
       \/ /\ ~NoPusherConfigured
          /\ \E n \in 0..MaxProviders : installed' = n
          /\ idx' = 1
          /\ ppc' = "for"
          /\ UNCHANGED perr
    /\ UNCHANGED <<enrichments, sink, sync, pusher, alerts, batchVars, sync_alerts,
                   pulled, outcome>>

\* for provider in installed_providers: provider_class = get_provider(...)
PullFor ==
    /\ ppc = "for"
    /\ UNCHANGED <<ingestVars, overlayVars, apiVars, normVars>>
    /\ \/ /\ idx > installed
          /\ ppc' = "after"
          /\ UNCHANGED <<perr, outcome>>
       \/ /\ idx <= installed
          /\ ppc' = "pull"
          /\ UNCHANGED <<perr, outcome>>
       \/ /\ idx <= installed
          /\ PullRaise("instantiate")
          /\ outcome' = (idx :> "instantiate_failed") @@ outcome
    /\ UNCHANGED <<enrichments, sink, sync, pusher, installed, idx, alerts, batchVars,
                   sync_alerts, pulled>>

\* history: the alerts pulled so far in the sweep
PulledSoFar == Len(Concat(pulled))

\* alerts = provider_class.get_alerts(); if alerts: ...
PullGetAlerts ==
    /\ ppc = "pull"
    /\ UNCHANGED <<ingestVars, overlayVars, apiVars, normVars>>
    /\ \/ /\ ProviderExcept("pull_failed")
          /\ pulled' = (idx :> <<>>) @@ pulled
          /\ UNCHANGED alerts
       \/ /\ \E kinds \in SeqsUpTo(AlertKinds, MaxAlerts - PulledSoFar) :
                /\ alerts' = MkAlerts(Provider(idx), kinds)
                /\ pulled' = (idx :> alerts') @@ pulled
          /\ IF alerts' # <<>>
             THEN ppc' = "enrich" /\ UNCHANGED <<idx, outcome, perr>>
             ELSE NextProvider("empty")
    /\ UNCHANGED <<enrichments, sink, sync, pusher, installed, batchVars, sync_alerts>>

\* a sweep that takes the batch loop whatever sync is
SyncRoute_Never == FALSE

\* if sync: the pulled alerts go to sync_alerts and the loop continues
SyncRoute == sync

\* the enrichment of the pulled alerts, then the route: sync_alerts or the batch loop
PullEnrich ==
    /\ ppc = "enrich"
    /\ UNCHANGED <<ingestVars, overlayVars, apiVars, normVars>>
    /\ \/ /\ ProviderExcept("enrich_failed")
          /\ UNCHANGED <<alerts, batchVars, sync_alerts>>
       \/ /\ alerts' = EnrichPulled(alerts,
                          GetEnrichments({alerts[j].fingerprint : j \in 1..Len(alerts)}))
          /\ IF SyncRoute
             THEN /\ sync_alerts' = SyncExtend(sync_alerts, alerts')
                  /\ NextProvider("ok")
                  /\ UNCHANGED batchVars
             ELSE /\ batch_send' = <<>>
                  /\ previous_compressed_batch' = EmptyString
                  /\ new_compressed_batch' = EmptyString
                  /\ number_of_alerts_in_batch' = 0
                  /\ ak' = 1
                  /\ ppc' = "batch"
                  /\ UNCHANGED <<sync_alerts, idx, outcome, perr>>
    /\ UNCHANGED <<enrichments, sink, sync, pusher, installed, pulled>>

\* one iteration of: for alert in alerts
PullBatchStep ==
    /\ ppc = "batch"
    /\ UNCHANGED <<ingestVars, overlayVars, apiVars, normVars>>
    /\ LET alert_dict == alerts[ak]
           appended == Append(batch_send, alert_dict)
           compressed == Encode(appended)
       IN  IF WithinCeiling(compressed)
           THEN /\ batch_send' = appended
                /\ new_compressed_batch' = compressed
                /\ number_of_alerts_in_batch' = number_of_alerts_in_batch + 1
                /\ previous_compressed_batch' = compressed
                /\ ak' = ak + 1
                /\ ppc' = IF ak = Len(alerts) THEN "rest" ELSE "batch"
                /\ UNCHANGED <<sink, idx, outcome, perr>>
           ELSE \/ /\ SendCompressedAlerts(previous_compressed_batch)
                   /\ batch_send' = <<alert_dict>>
                   /\ new_compressed_batch' = EmptyString
                   /\ number_of_alerts_in_batch' = 1
                   /\ ak' = ak + 1
                   /\ ppc' = IF ak = Len(alerts) THEN "rest" ELSE "batch"
                   /\ UNCHANGED <<previous_compressed_batch, idx, outcome, perr>>
                \/ /\ ProviderExcept("publish_failed")
                   /\ UNCHANGED <<sink, batchVars>>
    /\ UNCHANGED <<enrichments, sync, pusher, installed, alerts, sync_alerts, pulled>>

\* after the loop: send the rest of the alerts
PullRest ==
    /\ ppc = "rest"
    /\ UNCHANGED <<ingestVars, overlayVars, apiVars, normVars>>
    /\ IF RestToSend(new_compressed_batch)
       THEN \/ /\ SendCompressedAlerts(new_compressed_batch)
               /\ NextProvider("ok")
            \/ /\ ProviderExcept("publish_failed")
               /\ UNCHANGED sink
       ELSE /\ NextProvider("ok")
            /\ UNCHANGED sink
    /\ UNCHANGED <<enrichments, sync, pusher, installed, alerts, batchVars, sync_alerts,
                   pulled>>

\* if sync is False: trigger async-done; if sync is True: return sync_alerts
PullAfter ==
    /\ ppc = "after"
    /\ UNCHANGED <<ingestVars, overlayVars, apiVars, normVars>>
    /\ \/ /\ sync
          /\ ppc' = "returned"
          /\ UNCHANGED <<sink, perr>>
       \/ /\ ~sync
          /\ sink' = Append(sink, Trigger("async-done", EmptyObject))
          /\ ppc' = "returned"
          /\ UNCHANGED perr
       \/ /\ ~sync
          /\ PullRaise("async_done")
          /\ UNCHANGED sink
    /\ UNCHANGED <<enrichments, sync, pusher, installed, idx, alerts, batchVars,
                   sync_alerts, pulled, outcome>>

PullNext ==
    \/ PullCall
    \/ PullFor
    \/ PullGetAlerts
    \/ PullEnrich
    \/ PullBatchStep
    \/ PullRest
    \/ PullAfter

---------------------------------------------------------------------------
(* handle_formatted_events *)

\* alerts a webhook delivery hands over, at most
MaxEvents == 2

\* grouped alerts one run_rules call returns, at most
MaxGrouped == 2

EventKinds == [fingerprint : Fingerprints, size : {Ceiling \div 4}]

IngestIdle ==
    /\ formatted_events = <<>>
    /\ ipc = "idle"
    /\ ei = 0
    /\ session_new = <<>>
    /\ db_alerts = <<>>
    /\ wf_bound = FALSE
    /\ wf_queue = <<>>
    /\ rules_input = <<>>
    /\ grouped_alerts = <<>>
    /\ gi = 0
    /\ stageA = "pending"
    /\ stageB = "pending"
    /\ stageC = "pending"
    /\ calls = <<>>

IngestInit ==
    /\ formatted_events \in
          {MkAlerts(WebhookSource, kinds) : kinds \in SeqsUpTo(EventKinds, MaxEvents) \ {<<>>}}
    /\ ipc = "stageA"
    /\ ei = 1
    /\ session_new = <<>>
    /\ db_alerts = <<>>
    /\ wf_bound = FALSE
    /\ wf_queue = <<>>
    /\ rules_input = <<>>
    /\ grouped_alerts = <<>>
    /\ gi = 0
    /\ stageA = "pending"
    /\ stageB = "pending"
    /\ stageC = "pending"
    /\ calls = <<>>

Call(op, at, ok) == [op |-> op, at |-> at, ok |-> ok]

Called(cs) == calls' = calls \o cs

\* Alert(tenant_id, provider_type, event=formatted_event.dict(), fingerprint=...)
AlertRow(formatted_event) ==
    [fingerprint |-> formatted_event.fingerprint, event |-> formatted_event]

\* alert_event_copy = {**alert.event}, then every key of every row set on the copy
EnrichCopy(alert_event, rows) == EnrichAlert(alert_event, rows)

\* an insertion that is lost
InsertEvents_Dropped(queue, events) == queue

\* workflow_manager.insert_events(tenant_id, events)
InsertEvents(queue, events) == Append(queue, events)

\* a workflow dispatch that does not wait for the first try to end
AtStageB_Early == ipc \in {"stageA", "commit", "stageB"}

\* the first try has ended and the second try is next
AtStageB == ipc = "stageB"

\* a first try whose failure ends the stages that follow it
StageAExcept_SkipB ==
    /\ stageA' = "failed"
    /\ ipc' = "stageC"

\* except Exception of the first try: "Failed to push alerts to the DB"
StageAExcept ==
    /\ stageA' = "failed"
    /\ ipc' = "stageB"

\* except Exception of the second try: "Failed to run workflows based on alerts"
StageBExcept ==
    /\ stageB' = "failed"
    /\ ipc' = "stageC"

\* a third try whose handler re-raises
StageCExcept_Propagate ==
    /\ stageC' = "failed"
    /\ ipc' = "raised"

\* except Exception of the third try: "Failed to run rules engine"
StageCExcept ==
    /\ stageC' = "failed"
    /\ ipc' = "returned"

\* a single-alert publish whose failure ends the first try
PublishExcept_Abort ==
    /\ StageAExcept
    /\ UNCHANGED ei

\* except Exception of the try around the single-alert publish ("Failed to push alert
\* to the client"): the loop goes on with the next alert
PublishExcept ==
    /\ ei' = ei + 1
    /\ ipc' = IF ei = Len(formatted_events) THEN "commit" ELSE "stageA"
    /\ UNCHANGED stageA

\* one iteration of: for formatted_event in formatted_events
StageAStep ==
    /\ ipc = "stageA"
    /\ UNCHANGED <<pullVars, overlayVars, apiVars, normVars>>
    /\ LET pushed_event == [formatted_events[ei] EXCEPT !.pushed = TRUE]
           alert == AlertRow(pushed_event)
           rows == GetEnrichments({pushed_event.fingerprint})
           alert_event_copy == EnrichCopy(alert.event, rows)
           after == IF ei = Len(formatted_events) THEN "commit" ELSE "stageA"
       IN  /\ formatted_events' = [formatted_events EXCEPT ![ei] = pushed_event]
           /\ \/ /\ Called(<<Call("add", ei, FALSE)>>)
                 /\ StageAExcept
                 /\ UNCHANGED <<session_new, sink, ei>>
              \/ /\ Called(<<Call("add", ei, TRUE), Call("get_enrichments", ei, FALSE)>>)
                 /\ session_new' = Append(session_new, alert)
                 /\ StageAExcept
                 /\ UNCHANGED <<sink, ei>>
              \/ /\ Called(<<Call("add", ei, TRUE), Call("get_enrichments", ei, TRUE),
                              Call("trigger", ei, FALSE)>>)
                 /\ session_new' = Append(session_new, alert)
                 /\ PublishExcept
                 /\ UNCHANGED sink
              \/ /\ Called(<<Call("add", ei, TRUE), Call("get_enrichments", ei, TRUE),
                              Call("trigger", ei, TRUE)>>)
                 /\ session_new' = Append(session_new, alert)
                 /\ sink' = Append(sink, Trigger("async-alerts",
                                                 Encode(<<alert_event_copy>>)))
                 /\ ei' = ei + 1
                 /\ ipc' = after
                 /\ UNCHANGED stageA
    /\ UNCHANGED <<enrichments, db_alerts, wf_bound, wf_queue, rules_input,
                   grouped_alerts, gi, stageB, stageC>>

\* a commit that persists the pending rows but the last one
SessionCommit_Partial(db, session) ==
    db \o SubSeq(session, 1, Len(session) - 1)

\* session.commit(): every row added to the session becomes a committed row
SessionCommit(db, session) == db \o session

\* session.commit()
StageACommit ==
    /\ ipc = "commit"
    /\ UNCHANGED <<pullVars, overlayVars, apiVars, normVars>>
    /\ \/ /\ Called(<<Call("commit", 0, TRUE)>>)
          /\ db_alerts' = SessionCommit(db_alerts, session_new)
          /\ session_new' = <<>>
          /\ stageA' = "ok"
          /\ ipc' = "stageB"
       \/ /\ Called(<<Call("commit", 0, FALSE)>>)
          /\ StageAExcept
          /\ UNCHANGED <<db_alerts, session_new>>
    /\ UNCHANGED <<enrichments, sink, formatted_events, ei, wf_bound, wf_queue,
                   rules_input, grouped_alerts, gi, stageB, stageC>>

\* workflow_manager = WorkflowManager.get_instance(); insert_events(formatted_events)
StageB ==
    /\ AtStageB
    /\ UNCHANGED <<pullVars, overlayVars, apiVars, normVars>>
    /\ \/ /\ Called(<<Call("get_instance", 0, FALSE)>>)
          /\ StageBExcept
          /\ UNCHANGED <<wf_bound, wf_queue>>
       \/ /\ Called(<<Call("get_instance", 0, TRUE), Call("insert_events", 0, FALSE)>>)
          /\ wf_bound' = TRUE
          /\ StageBExcept
          /\ UNCHANGED wf_queue
       \/ /\ Called(<<Call("get_instance", 0, TRUE), Call("insert_events", 0, TRUE)>>)
          /\ wf_bound' = TRUE
          /\ wf_queue' = InsertEvents(wf_queue, formatted_events)
          /\ stageB' = "ok"
          /\ ipc' = "stageC"
    /\ UNCHANGED <<enrichments, sink, formatted_events, ei, session_new, db_alerts,
                   rules_input, grouped_alerts, gi, stageA, stageC>>

\* RulesEngine(tenant_id).run_rules(formatted_events); the grouped alerts, if any,
\* go to the workflow manager
StageC ==
    /\ ipc = "stageC"
    /\ UNCHANGED <<pullVars, overlayVars, apiVars, normVars>>
    /\ \/ /\ Called(<<Call("RulesEngine", 0, FALSE)>>)
          /\ StageCExcept
          /\ UNCHANGED <<rules_input, grouped_alerts, gi, wf_queue>>
       \/ /\ Called(<<Call("RulesEngine", 0, TRUE), Call("run_rules", 0, FALSE)>>)
          /\ rules_input' = Append(rules_input, formatted_events)
          /\ StageCExcept
          /\ UNCHANGED <<grouped_alerts, gi, wf_queue>>
       \/ /\ rules_input' = Append(rules_input, formatted_events)
          /\ \E kinds \in SeqsUpTo(EventKinds, MaxGrouped) :
                grouped_alerts' = MkAlerts(RulesSource, kinds)
          /\ IF grouped_alerts' = <<>>
             THEN /\ Called(<<Call("RulesEngine", 0, TRUE), Call("run_rules", 0, TRUE)>>)
                  /\ stageC' = "ok"
                  /\ ipc' = "returned"
                  /\ UNCHANGED <<gi, wf_queue>>
             ELSE \/ /\ wf_bound
                     /\ Called(<<Call("RulesEngine", 0, TRUE), Call("run_rules", 0, TRUE),
                                  Call("insert_events", 1, TRUE)>>)
                     /\ wf_queue' = InsertEvents(wf_queue, grouped_alerts')
                     /\ gi' = 1
                     /\ ipc' = "grouped"
                     /\ UNCHANGED stageC
                  \/ /\ wf_bound
                     /\ Called(<<Call("RulesEngine", 0, TRUE), Call("run_rules", 0, TRUE),
                                  Call("insert_events", 1, FALSE)>>)
                     /\ StageCExcept
                     /\ UNCHANGED <<gi, wf_queue>>
                  \/ /\ ~wf_bound
                     /\ Called(<<Call("RulesEngine", 0, TRUE), Call("run_rules", 0, TRUE),
                                  Call("workflow_manager", 1, FALSE)>>)
                     /\ StageCExcept
                     /\ UNCHANGED <<gi, wf_queue>>
    /\ UNCHANGED <<enrichments, sink, formatted_events, ei, session_new, db_alerts,
                   wf_bound, stageA, stageB>>

\* one iteration of: for grouped_alert in grouped_alerts
StageCPublish ==
    /\ ipc = "grouped"
    /\ UNCHANGED <<pullVars, overlayVars, apiVars, normVars>>
    /\ \/ /\ Called(<<Call("trigger_grouped", gi, TRUE)>>)
          /\ sink' = Append(sink, Trigger("async-alerts", Encode(<<grouped_alerts[gi]>>)))
       \/ /\ Called(<<Call("trigger_grouped", gi, FALSE)>>)
          /\ UNCHANGED sink
    /\ gi' = gi + 1
    /\ IF gi = Len(grouped_alerts)
       THEN stageC' = "ok" /\ ipc' = "returned"
       ELSE UNCHANGED <<stageC, ipc>>
    /\ UNCHANGED <<enrichments, formatted_events, ei, session_new, db_alerts, wf_bound,
                   wf_queue, rules_input, grouped_alerts, stageA, stageB>>

IngestNext ==
    \/ StageAStep
    \/ StageACommit
    \/ StageB
    \/ StageC
    \/ StageCPublish

---------------------------------------------------------------------------
(* delete_alert and assign_alert *)

\* calls of delete_alert / assign_alert in one run, at most
MaxRequests == 2

\* the fingerprint whose overlay the calls work on
OverlayFingerprint == "fp1"

\* the lastReceived values of the alert instances of that fingerprint
LastReceiveds == {"t1", "t2"}

\* the authenticated caller, and a user some earlier call assigned
Actor == "u1"

OtherUser == "u2"

\* the empty dict {}
NoAssignees == [l \in {} |-> Actor]

\* an overlay with no keys
NoEnrichments == [k \in {} |-> <<>>]

\* the store with no rows
NoRows == [f \in {} |-> NoEnrichments]

\* The overlays a run starts from, each one left by earlier calls: custom fields only
\* (enrich_alert), assignees only (assign_alert), and deleted, assignees and custom
\* fields (delete_alert after enrich_alert), with no, one or both of the lastReceived
\* values deleted. The legacy bool of "deleted", which delete_alert reads as [], is
\* not among them.
InitOverlays ==
    LET ds == {<<>>, <<"t1">>, <<"t2">>, <<"t1", "t2">>}
        as == {NoAssignees, "t1" :> OtherUser}
    IN  {[note |-> "n"]}
        \cup {[assignees |-> a] : a \in as}
        \cup {[deleted |-> d, assignees |-> a, note |-> "n"] : d \in ds, a \in as}

OverlayStores == {NoRows} \cup {OverlayFingerprint :> o : o \in InitOverlays}

\* get_enrichment(tenant_id, fingerprint).enrichments, or no keys if there is no row
GetEnrichment(fingerprint) ==
    IF fingerprint \in DOMAIN enrichments THEN enrichments[fingerprint] ELSE NoEnrichments

\* enrichment.enrichments.get("deleted", [])
DeletedOf(enr) == IF "deleted" \in DOMAIN enr THEN enr.deleted ELSE <<>>

\* enrichment.enrichments.get("assignees", {})
AssigneesOf(enr) == IF "assignees" \in DOMAIN enr THEN enr.assignees ELSE NoAssignees

\* lastReceived in deleted_last_received
In(v, list) == \E j \in 1..Len(list) : list[j] = v

\* list.remove(v): the first occurrence goes
Remove(list, v) ==
    LET first == CHOOSE j \in 1..Len(list) :
                     list[j] = v /\ \A h \in 1..(j - 1) : list[h] # v
    IN  SubSeq(list, 1, first - 1) \o SubSeq(list, first + 1, Len(list))

\* the restore / delete branch of delete_alert
MarkDeleted(deleted_last_received, lastReceived, restore) ==
    IF restore /\ In(lastReceived, deleted_last_received)
    THEN Remove(deleted_last_received, lastReceived)
    ELSE IF ~restore
         THEN Append(deleted_last_received, lastReceived)
         ELSE deleted_last_received

\* an assignment of the acting user whatever the dict holds
DefaultAssignee_Overwrite(assignees_last_receievd, lastReceived, user_email) ==
    (lastReceived :> user_email) @@ assignees_last_receievd

\* if lastReceived not in assignees_last_receievd: assignees_last_receievd[...] = user_email
DefaultAssignee(assignees_last_receievd, lastReceived, user_email) ==
    IF lastReceived \in DOMAIN assignees_last_receievd
    THEN assignees_last_receievd
    ELSE (lastReceived :> user_email) @@ assignees_last_receievd

\* an unassign that empties the dict
Pop_Clear(assignees_last_receievd, last_received) == NoAssignees

\* assignees_last_receievd.pop(last_received, None)
Pop(assignees_last_receievd, last_received) ==
    [l \in DOMAIN assignees_last_receievd \ {last_received} |->
        assignees_last_receievd[l]]

\* the unassign / assign branch of assign_alert
Assign(assignees_last_receievd, last_received, user_email, unassign) ==
    IF unassign
    THEN Pop(assignees_last_receievd, last_received)
    ELSE (last_received :> user_email) @@ assignees_last_receievd

\* enrich_alert_db: the given keys replace those of the row, the other keys stay
EnrichAlertDb(store, fingerprint, new) ==
    (fingerprint :> (new @@ (IF fingerprint \in DOMAIN store
                             THEN store[fingerprint] ELSE NoEnrichments))) @@ store

OverlayIdle ==
    /\ requests = <<>>
    /\ oplog = <<>>
    /\ budget = 0

OverlayInit ==
    /\ requests = <<>>
    /\ oplog = <<>>
    /\ budget = MaxRequests

\* A call that has arrived: its parameters, its locals as they stand after the read,
\* the overlay it read, how many writes had returned when it read, and where it is
\* ("write": enrich_alert_db is next).
Request(handler, lastReceived, flag, rpc, deleted_last_received, assignees_last_receievd, seen) ==
    [handler |-> handler, fingerprint |-> OverlayFingerprint,
     lastReceived |-> lastReceived, flag |-> flag, user_email |-> Actor, rpc |-> rpc,
     deleted_last_received |-> deleted_last_received,
     assignees_last_receievd |-> assignees_last_receievd,
     seen |-> seen, read_at |-> Len(oplog)]

\* enrichments={"deleted": deleted_last_received, "assignees": assignees_last_receievd}
DeleteEnrichments(request) ==
    [deleted |-> request.deleted_last_received,
     assignees |-> request.assignees_last_receievd]

\* a write that merges into the overlay as it is when the write is made
AssignEnrichments_Reread(request) ==
    [assignees |-> Assign(AssigneesOf(GetEnrichment(request.fingerprint)),
                          request.lastReceived, request.user_email, request.flag)]

\* enrichments={"assignees": assignees_last_receievd}
AssignEnrichments(request) == [assignees |-> request.assignees_last_receievd]

\* the call leaves its handler: "returned" with {"status": "ok"}, or "raised"
Leave(r, how) == requests' = [requests EXCEPT ![r].rpc = how]

Logged(r, mail) ==
    oplog' = Append(oplog, [r |-> r, req |-> requests[r],
                            after |-> enrichments'[requests[r].fingerprint],
                            mail |-> mail])

\* delete_alert up to its enrich_alert_db call
DeleteAlertRead ==
    /\ budget > 0
    /\ budget' = budget - 1
    /\ \E lastReceived \in LastReceiveds, restore \in BOOLEAN :
          \/ requests' = Append(requests,
                 Request("delete_alert", lastReceived, restore, "raised",
                         <<>>, NoAssignees, NoEnrichments))
          \/ LET enrichment == GetEnrichment(OverlayFingerprint)
                 deleted_last_received ==
                     MarkDeleted(DeletedOf(enrichment), lastReceived, restore)
                 assignees_last_receievd ==
                     DefaultAssignee(AssigneesOf(enrichment), lastReceived, Actor)
             IN  requests' = Append(requests,
                     Request("delete_alert", lastReceived, restore, "write",
                             deleted_last_received, assignees_last_receievd,
                             enrichment))
    /\ UNCHANGED <<enrichments, sink, oplog, pullVars, ingestVars, apiVars, normVars>>

\* the enrich_alert_db call of delete_alert, and its return
DeleteAlertWrite(r) ==
    /\ requests[r].handler = "delete_alert"
    /\ requests[r].rpc = "write"
    /\ \/ /\ enrichments' = EnrichAlertDb(enrichments, requests[r].fingerprint,
                                          DeleteEnrichments(requests[r]))
          /\ Logged(r, "none")
          /\ Leave(r, "returned")
       \/ /\ Leave(r, "raised")
          /\ UNCHANGED <<enrichments, oplog>>
    /\ UNCHANGED <<sink, budget, pullVars, ingestVars, apiVars, normVars>>

\* assign_alert up to its enrich_alert_db call
AssignAlertRead ==
    /\ budget > 0
    /\ budget' = budget - 1
    /\ \E last_received \in LastReceiveds, unassign \in BOOLEAN :
          \/ requests' = Append(requests,
                 Request("assign_alert", last_received, unassign, "raised",
                         <<>>, NoAssignees, NoEnrichments))
          \/ LET enrichment == GetEnrichment(OverlayFingerprint)
                 assignees_last_receievd ==
                     Assign(AssigneesOf(enrichment), last_received, Actor, unassign)
             IN  requests' = Append(requests,
                     Request("assign_alert", last_received, unassign, "write",
                             <<>>, assignees_last_receievd, enrichment))
    /\ UNCHANGED <<enrichments, sink, oplog, pullVars, ingestVars, apiVars, normVars>>

\* the enrich_alert_db call of assign_alert, the email, and the return
AssignAlertWrite(r) ==
    /\ requests[r].handler = "assign_alert"
    /\ requests[r].rpc = "write"
    /\ \/ /\ enrichments' = EnrichAlertDb(enrichments, requests[r].fingerprint,
                                          AssignEnrichments(requests[r]))
          /\ \E mail \in IF requests[r].flag THEN {"none"} ELSE {"sent", "failed"} :
                Logged(r, mail)
          /\ Leave(r, "returned")
       \/ /\ Leave(r, "raised")
          /\ UNCHANGED <<enrichments, oplog>>
    /\ UNCHANGED <<sink, budget, pullVars, ingestVars, apiVars, normVars>>

OverlayNext ==
    \/ DeleteAlertRead
    \/ AssignAlertRead
    \/ \E r \in 1..Len(requests) : DeleteAlertWrite(r)
    \/ \E r \in 1..Len(requests) : AssignAlertWrite(r)

---------------------------------------------------------------------------
(* get_all_alerts *)

ApiIdle ==
    /\ gpc = "idle"
    /\ response = "none"
    /\ bg_tasks = <<>>

ApiInit ==
    /\ gpc = "call"
    /\ response = "none"
    /\ bg_tasks = <<>>

\* background_tasks.add_task(task, ...)
AddTask(tasks, task, args) == Append(tasks, [task |-> task, args |-> args])

\* what of the sweep a request does not touch when it starts or schedules it
pullLocals == <<installed, idx, alerts, batchVars, sync_alerts, perr, pulled, outcome>>

\* get_all_alerts up to the sweep: the rows of the alert table and their AlertDto,
\* then pull_alerts_from_providers called with sync=True, or added as a task and the
\* rows returned
GetAllAlerts ==
    /\ gpc = "call"
    /\ \/ /\ response' = "500"
          /\ gpc' = "responded"
          /\ UNCHANGED <<bg_tasks, sync, pusher, ppc>>
       \/ /\ \E pusher_client \in BOOLEAN : pusher' = pusher_client
          /\ sync' = TRUE
          /\ ppc' = "call"
          /\ gpc' = "pulling"
          /\ UNCHANGED <<response, bg_tasks>>
       \/ /\ \E pusher_client \in BOOLEAN : pusher' = pusher_client
          /\ sync' = FALSE
          /\ bg_tasks' = AddTask(bg_tasks, "pull_alerts_from_providers", <<>>)
          /\ response' = "ok"
          /\ gpc' = "responded"
          /\ UNCHANGED ppc
    /\ UNCHANGED <<enrichments, sink, pullLocals, ingestVars, overlayVars, normVars>>

\* alerts_dto.extend(pull_alerts_from_providers(..., sync=True)); return alerts_dto
GetAllSyncReturn ==
    /\ gpc = "pulling"
    /\ ppc \in {"returned", "raised"}
    /\ response' = IF ppc = "returned" THEN "ok" ELSE "500"
    /\ gpc' = "responded"
    /\ UNCHANGED <<enrichments, sink, bg_tasks, pullVars, ingestVars, overlayVars,
                   normVars>>

\* the response is sent; the task that was added starts
GetAllBackground ==
    /\ gpc = "responded"
    /\ bg_tasks # <<>>
    /\ Head(bg_tasks).task = "pull_alerts_from_providers"
    /\ ppc = "idle"
    /\ ppc' = "call"
    /\ bg_tasks' = Tail(bg_tasks)
    /\ UNCHANGED <<enrichments, sink, gpc, response, sync, pusher, pullLocals,
                   ingestVars, overlayVars, normVars>>

GetAllNext ==
    \/ GetAllAlerts
    \/ GetAllSyncReturn
    \/ GetAllBackground

---------------------------------------------------------------------------
(* receive_event and the Grafana normalizers *)

\* alerts in one payload, at most
MaxRaws == 3

Operations == {"receive_event", "_get_alerts", "__extract_rules"}

\* An alert as the source gives it: whether AlertDto(...) accepts it, and the id of
\* the rule it belongs to (what __extract_rules de-duplicates by).
RawKinds == [wellformed : BOOLEAN, rule : {"r1", "r2"}]

MkRaws(kinds) ==
    [i \in 1..Len(kinds) |->
        [n |-> i, wellformed |-> kinds[i].wellformed, rule |-> kinds[i].rule]]

\* AlertDto(id=..., ...) of a raw alert that it accepts
AlertDto(id, raw) == [id |-> id, n |-> raw.n]

Returned(alert_dtos) == [raised |-> FALSE, alerts |-> alert_dtos]

Raised == [raised |-> TRUE, alerts |-> <<>>]

\* format_alert: for alert in alerts: AlertDto(...); formatted_alerts.append(alert_dto)
RECURSIVE FormatAlert(_, _)
FormatAlert(event_alerts, formatted_alerts) ==
    IF event_alerts = <<>> THEN Returned(formatted_alerts)
    ELSE LET alert == Head(event_alerts)
         IN  IF ~alert.wellformed THEN Raised
             ELSE FormatAlert(Tail(event_alerts),
                              Append(formatted_alerts, AlertDto(<<"alert", alert.n>>, alert)))

\* _get_alerts: for i in range(0, len(events)): alerts.append(AlertDto(id=str(i), ...))
RECURSIVE GetAlerts(_, _)
GetAlerts(events, got) ==
    IF events = <<>> THEN Returned(got)
    ELSE LET event == Head(events)
         IN  IF ~event.wellformed THEN Raised
             ELSE GetAlerts(Tail(events),
                            Append(got, AlertDto(<<"alert", event.n - 1>>, event)))

\* __extract_rules: an alert whose id is in alert_ids is passed over; one that
\* AlertDto rejects is logged and passed over
RECURSIVE ExtractRules(_, _, _)
ExtractRules(rule_alerts, alert_ids, alert_dtos) ==
    IF rule_alerts = <<>> THEN Returned(alert_dtos)
    ELSE LET alert == Head(rule_alerts)
             alert_id == <<"rule", alert.rule>>
         IN  IF alert_id \in alert_ids \/ ~alert.wellformed
             THEN ExtractRules(Tail(rule_alerts), alert_ids, alert_dtos)
             ELSE ExtractRules(Tail(rule_alerts), alert_ids \cup {alert_id},
                               Append(alert_dtos, AlertDto(alert_id, alert)))

NormIdle ==
    /\ operation = "none"
    /\ body = "none"
    /\ raws = <<>>
    /\ npc = "idle"
    /\ result = Returned(<<>>)

\* The body of a receive_event request is bytes that do not decode, text that is not
\* JSON, or JSON; the answer _get_alerts gets from Grafana is not ok, or JSON.
NormInit ==
    /\ operation \in Operations
    /\ body \in CASE operation = "receive_event" -> {"not_utf8", "not_json", "json"}
                  [] operation = "_get_alerts" -> {"not_ok", "json"}
                  [] OTHER -> {"json"}
    /\ raws \in IF body = "json"
                THEN {MkRaws(kinds) : kinds \in SeqsUpTo(RawKinds, MaxRaws)}
                ELSE {<<>>}
    /\ npc = "call"
    /\ result = Returned(<<>>)

\* a handler of the second try that answers success
ReceiveExcept_Ok ==
    /\ response' = "ok"
    /\ UNCHANGED bg_tasks

\* except Exception: raise HTTPException(400, "Failed to handle event")
ReceiveExcept ==
    /\ response' = "400"
    /\ UNCHANGED bg_tasks

\* a test that is always true
HasFormattedEvents_Always(formatted_events_) == TRUE

\* if formatted_events:
HasFormattedEvents(formatted_events_) == formatted_events_ # <<>>

\* receive_event with Grafana as the provider class
ReceiveEvent ==
    /\ operation = "receive_event"
    /\ npc = "call"
    /\ npc' = "done"
    /\ \/ /\ body = "not_utf8"
          /\ response' = "500"
          /\ UNCHANGED <<bg_tasks, result>>
       \/ /\ body = "not_json"
          /\ response' = "400"
          /\ UNCHANGED <<bg_tasks, result>>
       \/ /\ body = "json"
          /\ result' = FormatAlert(raws, <<>>)
          /\ IF result'.raised
             THEN ReceiveExcept
             ELSE /\ bg_tasks' = IF HasFormattedEvents(result'.alerts)
                                 THEN AddTask(bg_tasks, "handle_formatted_events",
                                              result'.alerts)
                                 ELSE bg_tasks
                  /\ response' = "ok"
    /\ UNCHANGED <<enrichments, sink, gpc, operation, body, raws, pullVars, ingestVars,
                   overlayVars>>

\* GrafanaProvider._get_alerts
GrafanaGetAlerts ==
    /\ operation = "_get_alerts"
    /\ npc = "call"
    /\ npc' = "done"
    /\ result' = IF body = "not_ok" THEN Raised ELSE GetAlerts(raws, <<>>)
    /\ UNCHANGED <<enrichments, sink, apiVars, operation, body, raws, pullVars,
                   ingestVars, overlayVars>>

\* GrafanaProvider.__extract_rules
GrafanaExtractRules ==
    /\ operation = "__extract_rules"
    /\ npc = "call"
    /\ npc' = "done"
    /\ result' = ExtractRules(raws, {}, <<>>)
    /\ UNCHANGED <<enrichments, sink, apiVars, operation, body, raws, pullVars,
                   ingestVars, overlayVars>>

NormalizeNext ==
    \/ ReceiveEvent
    \/ GrafanaGetAlerts
    \/ GrafanaExtractRules

---------------------------------------------------------------------------
(* Specifications *)

InitPull ==
    /\ enrichments \in EnrichmentStores
    /\ sink = <<>>
    /\ PullInit
    /\ IngestIdle
    /\ OverlayIdle
    /\ ApiIdle
    /\ NormIdle

InitIngest ==
    /\ enrichments \in EnrichmentStores
    /\ sink = <<>>
    /\ PullIdle
    /\ IngestInit
    /\ OverlayIdle
    /\ ApiIdle
    /\ NormIdle

InitOverlay ==
    /\ enrichments \in OverlayStores
    /\ sink = <<>>
    /\ PullIdle
    /\ IngestIdle
    /\ OverlayInit
    /\ ApiIdle
    /\ NormIdle

InitGetAll ==
    /\ enrichments \in EnrichmentStores
    /\ sink = <<>>
    /\ PullIdle
    /\ IngestIdle
    /\ OverlayIdle
    /\ ApiInit
    /\ NormIdle

InitNormalize ==
    /\ enrichments = NoRows
    /\ sink = <<>>
    /\ PullIdle
    /\ IngestIdle
    /\ OverlayIdle
    /\ ApiIdle
    /\ NormInit

InitFanOut == InitPull \/ InitIngest

InitSources == InitPull \/ InitNormalize

Init == InitPull \/ InitIngest \/ InitOverlay \/ InitGetAll \/ InitNormalize

Next == PullNext \/ IngestNext \/ OverlayNext \/ GetAllNext \/ NormalizeNext

\* one call of pull_alerts_from_providers
SpecPull == InitPull /\ [][PullNext]_vars

\* one call of handle_formatted_events
SpecIngest == InitIngest /\ [][IngestNext]_vars

\* calls of delete_alert and assign_alert on one overlay
SpecOverlay == InitOverlay /\ [][OverlayNext]_vars

\* one request of get_all_alerts and the sweep it runs or schedules
SpecGetAll == InitGetAll /\ [][GetAllNext \/ PullNext]_vars

\* one call of receive_event, _get_alerts or __extract_rules
SpecNormalize == InitNormalize /\ [][NormalizeNext]_vars

\* one call of either handler that exposes alerts: the sweep or the ingestion
SpecFanOut == InitFanOut /\ [][PullNext \/ IngestNext]_vars

\* one call of either source of alerts: the sweep or a normalizer
SpecSources == InitSources /\ [][PullNext \/ NormalizeNext]_vars

\* any one of the above
Spec == Init /\ [][Next]_vars

---------------------------------------------------------------------------
(* What the sink, the consumers and the histories show *)

\* the alerts of the async-alerts messages, in publish order
FlushedAlerts ==
    Concat([m \in 1..Len(sink) |->
              IF sink[m].event = "async-alerts" THEN sink[m].payload.alerts ELSE <<>>])

From(as, src) == SelectSeq(as, LAMBDA a : a.src = src)

IdsOf(as) == [j \in 1..Len(as) |-> as[j].n]

Failed(op, at) == \E c \in 1..Len(calls) : calls[c] = Call(op, at, FALSE)

FailedOp(op) == \E c \in 1..Len(calls) : calls[c].op = op /\ ~calls[c].ok

\* the overlay of the alert's fingerprint, if there is one, is what the alert shows
OverlayMerged(a) ==
    a.fingerprint \in DOMAIN enrichments =>
        \A f \in DOMAIN enrichments[a.fingerprint] :
            f \in DOMAIN a.event /\ a.event[f] = enrichments[a.fingerprint][f]

AllMerged(as) == \A j \in 1..Len(as) : OverlayMerged(as[j])

ProviderFailures == {"pull_failed", "enrich_failed", "publish_failed"}

\* every alert fits the ceiling alone, and no run of consecutive alerts encodes to
\* exactly the ceiling
FitsBelow(as) ==
    /\ \A j \in 1..Len(as) : as[j].size <= Ceiling
    /\ \A a, b \in 1..Len(as) : a <= b => SumSizes(SubSeq(as, a, b)) # Ceiling

---------------------------------------------------------------------------
(* C1..C10 *)

\* C1: in async mode, for a provider whose batch publisher ran to its end over alerts
\* none of which exceeds the ceiling alone, the alerts of the flushed messages, in
\* flush order, are exactly the pulled alerts: none dropped, none duplicated. (Stated
\* for the inputs none of whose batches sits exactly at the ceiling.)
C1_FlushedIsInput ==
    \A p \in DOMAIN outcome :
        (~sync /\ outcome[p] = "ok" /\ FitsBelow(pulled[p]))
        => IdsOf(From(FlushedAlerts, Provider(p))) = IdsOf(pulled[p])

\* C2: every async-alerts message of a sweep has an encoded length of at most 10,240.
C2_MessagesWithinCeiling ==
    \A m \in 1..Len(sink) :
        sink[m].event = "async-alerts" => sink[m].payload.len <= Ceiling

\* a sweep that overflowed a batch and flushed one of exactly the ceiling
C2_Witness ==
    /\ ppc = "returned"
    /\ \E m \in 1..Len(sink) :
          /\ sink[m].event = "async-alerts"
          /\ sink[m].payload.len = Ceiling
    /\ \E p \in DOMAIN pulled : SumSizes(pulled[p]) > Ceiling

\* C3: a persistence failure (session.add or the enrichment read raising) on one
\* alert leaves every other alert of the call persisted once Stage A has ended, and
\* Stage B runs.
C3_OthersStillPersisted ==
    /\ stageA # "pending" =>
          \A f \in 1..Len(formatted_events) :
              (Failed("add", f) \/ Failed("get_enrichments", f)) =>
                  \A j \in (1..Len(formatted_events)) \ {f} :
                      \E r \in 1..Len(db_alerts) : db_alerts[r].event.n = j
    /\ ipc = "returned" => stageB # "pending"

\* C4: every alert published to the live feed or handed to the workflow consumer or
\* the rules consumer shows the overlay of its fingerprint.
C4_AllExposedMerged ==
    /\ AllMerged(FlushedAlerts)
    /\ \A q \in 1..Len(wf_queue) : AllMerged(wf_queue[q])
    /\ \A q \in 1..Len(rules_input) : AllMerged(rules_input[q])

\* C4, amended: every alert that Stage A publishes alone, and every alert that a
\* sweep hands to the batch publisher or returns in synchronous mode, shows the
\* overlay of its fingerprint.
C4_PublishedMerged ==
    /\ AllMerged(From(FlushedAlerts, WebhookSource))
    /\ \A p \in 1..MaxProviders : AllMerged(From(FlushedAlerts, Provider(p)))
    /\ AllMerged(sync_alerts)
    /\ ppc = "batch" => AllMerged(alerts)

\* Stage A has published the merged view of an alert whose fingerprint has an overlay,
\* and the workflow consumer has the call's alerts
C4_Witness ==
    /\ ipc = "returned"
    /\ wf_queue # <<>>
    /\ \E j \in 1..Len(FlushedAlerts) :
          /\ FlushedAlerts[j].src = WebhookSource
          /\ FlushedAlerts[j].fingerprint \in DOMAIN enrichments
          /\ FlushedAlerts[j].event.x = "ovl"

\* C5: a synchronous sweep in which provider pulls raise returns, and what it returns
\* holds nothing of a provider whose pull raised and exactly the alerts, in order, of
\* every provider that succeeded.
C5_SyncIsolation ==
    (sync /\ ppc \in {"returned", "raised"} /\ perr \notin {"enumerate", "instantiate"})
    => /\ ppc = "returned"
       /\ \A p \in 1..installed :
             /\ p \in DOMAIN outcome
             /\ outcome[p] \in ProviderFailures => From(sync_alerts, Provider(p)) = <<>>
             /\ outcome[p] = "ok" =>
                   IdsOf(From(sync_alerts, Provider(p))) = IdsOf(pulled[p])
       /\ \A j \in 1..Len(sync_alerts) :
             \E p \in 1..installed :
                 sync_alerts[j].src = Provider(p) /\ outcome[p] = "ok"

\* provider 1's pull raised, provider 2's returned alerts, and the sweep returned
C5_Witness ==
    /\ sync
    /\ ppc = "returned"
    /\ installed = 2
    /\ outcome[1] = "pull_failed"
    /\ outcome[2] = "ok"
    /\ Len(pulled[2]) >= 2
    /\ Len(sync_alerts) = Len(pulled[2])

\* C6: in an async sweep, when a provider's pull, enrichment or batch publish raises,
\* every later provider is still pulled and its alerts are all published, and the
\* sweep ends with async-done. (Stated for the later providers whose alerts each fit
\* the ceiling alone and none of whose batches sits exactly at the ceiling.)
C6_LaterProvidersPublished ==
    (~sync /\ ppc \in {"returned", "raised"}
           /\ perr \notin {"config", "enumerate", "instantiate", "async_done"})
    => /\ ppc = "returned"
       /\ sink # <<>> /\ sink[Len(sink)].event = "async-done"
       /\ \A p, q \in 1..installed :
             ( /\ p < q
               /\ outcome[p] \in ProviderFailures
               /\ outcome[q] \in {"ok", "empty"}
               /\ FitsBelow(pulled[q]) )
             => IdsOf(From(FlushedAlerts, Provider(q))) = IdsOf(pulled[q])

\* C7: nothing but the configuration error leaves pull_alerts_from_providers.
C7_OnlyConfigErrorPropagates == perr \in {"none", "config"}

\* C8: handle_formatted_events never raises to its caller, and it ends returned.
C8_NeverPropagates ==
    /\ ipc # "raised"
    /\ ipc \in {"idle", "returned"} \/ ENABLED IngestNext

\* a call in which all three stages failed, and a single-alert publish too
C8_Witness ==
    /\ ipc = "returned"
    /\ stageA = "failed"
    /\ stageB = "failed"
    /\ stageC = "failed"
    /\ FailedOp("trigger")
    /\ FailedOp("get_instance")

StageOf(c) ==
    IF c.op \in {"add", "get_enrichments", "trigger", "commit"} THEN 1
    ELSE IF c.op = "get_instance" \/ (c.op = "insert_events" /\ c.at = 0) THEN 2
    ELSE 3

\* C9: the workflow consumer gets the call's alerts only after Stage A has ended, by
\* success or failure, and the rules consumer is called only after Stage B has ended;
\* no call of an earlier stage follows a call of a later one.
C9_StagesOrdered ==
    /\ wf_queue # <<>> => stageA \in {"ok", "failed"}
    /\ (rules_input # <<>> \/ FailedOp("RulesEngine")) => stageB \in {"ok", "failed"}
    /\ \A c, d \in 1..Len(calls) : c < d => StageOf(calls[c]) <= StageOf(calls[d])

\* Stage A failed, and both consumers were still called, in order
C9_Witness ==
    /\ ipc = "returned"
    /\ stageA = "failed"
    /\ wf_queue # <<>>
    /\ rules_input # <<>>

\* C10: when the rules consumer raises, Stage B has ended, and unless the workflow
\* consumer itself failed the workflow queue holds the call's alert sequence.
C10_WorkflowSurvivesRulesFailure ==
    (FailedOp("RulesEngine") \/ FailedOp("run_rules"))
    => /\ stageB \in {"ok", "failed"}
       /\ ~(FailedOp("get_instance") \/ Failed("insert_events", 0))
             => wf_queue = <<formatted_events>>

\* run_rules raised after the workflow consumer took the call's alerts
C10_Witness ==
    /\ ipc = "returned"
    /\ FailedOp("run_rules")
    /\ stageB = "ok"
    /\ stageC = "failed"
    /\ Len(formatted_events) >= 2

---------------------------------------------------------------------------
(* C11..C20 *)

\* the single-alert messages of grouped alerts, in publish order
GroupedMessages ==
    SelectSeq(sink, LAMBDA m : /\ m.event = "async-alerts"
                               /\ m.payload.alerts # <<>>
                               /\ m.payload.alerts[1].src = RulesSource)

\* the workflow insertions of alerts of the given source, in call order
Inserted(src) == SelectSeq(wf_queue, LAMBDA q : q # <<>> /\ q[1].src = src)

RunRulesReturned == \E c \in 1..Len(calls) : calls[c] = Call("run_rules", 0, TRUE)

\* C11: when Stage B failed, by get_instance or by insert_events raising, and neither
\* the rules consumer nor an insertion or publish of Stage C raised, the rules
\* consumer was called with the alert sequence and every grouped alert it returned is
\* published to the live feed.
C11_StageCSurvivesStageB ==
    ( /\ ipc = "returned"
      /\ stageB = "failed"
      /\ ~FailedOp("RulesEngine") /\ ~FailedOp("run_rules")
      /\ ~Failed("insert_events", 1) /\ ~FailedOp("trigger_grouped") )
    => /\ rules_input = <<formatted_events>>
       /\ IdsOf(From(FlushedAlerts, RulesSource)) = IdsOf(grouped_alerts)

\* C12: when run_rules returned and the workflow consumer did not raise on the
\* grouped list: a non-empty grouped list is inserted into the workflow consumer
\* exactly once, and the grouped alerts whose publish did not raise are published
\* once each, in order, each as a single-element message; an empty grouped list is
\* neither inserted nor published.
C12_GroupedInsertedAndPublished ==
    (ipc = "returned" /\ RunRulesReturned /\ ~Failed("insert_events", 1))
    => LET published == SelectSeq(grouped_alerts,
                                  LAMBDA a : ~Failed("trigger_grouped", a.n))
       IN  /\ Inserted(RulesSource) =
                 IF grouped_alerts = <<>> THEN <<>> ELSE <<grouped_alerts>>
           /\ Len(GroupedMessages) = Len(published)
           /\ \A j \in 1..Len(published) :
                 GroupedMessages[j].payload.alerts = <<published[j]>>

\* C13: whatever happened in Stage A, once the call has returned the workflow
\* consumer has been handed the entire input sequence exactly once (unless
\* get_instance or that insertion itself raised) and the rules consumer has been
\* handed the same entire sequence exactly once (unless its construction raised).
C13_ConsumersGetWholeInput ==
    ipc = "returned" =>
        /\ ~(FailedOp("get_instance") \/ Failed("insert_events", 0))
              => Inserted(WebhookSource) = <<formatted_events>>
        /\ ~FailedOp("RulesEngine") => rules_input = <<formatted_events>>
        /\ \A q \in 1..Len(rules_input) :
              IdsOf(rules_input[q]) = [j \in 1..Len(formatted_events) |-> j]

\* the first alert could not be added, and both consumers still got both alerts
C13_Witness ==
    /\ ipc = "returned"
    /\ Failed("add", 1)
    /\ Len(formatted_events) = 2
    /\ Inserted(WebhookSource) = <<formatted_events>>
    /\ rules_input = <<formatted_events>>

\* C14: once Stage A has ended, every alert it published alone has a committed record.
C14_PublishedIsPersisted ==
    stageA # "pending" =>
        \A j \in 1..Len(FlushedAlerts) :
            FlushedAlerts[j].src = WebhookSource =>
                \E r \in 1..Len(db_alerts) : db_alerts[r].event.n = FlushedAlerts[j].n

\* C15: where the overlay of an alert's fingerprint has a field x, the alert that
\* Stage A publishes alone, and every alert a sweep has enriched (all of those that
\* share the fingerprint), shows the overlay's x and not its own; an alert whose
\* fingerprint has no overlay shows its own fields.
C15_OverlayFieldWins ==
    LET Wins(a) ==
            IF a.fingerprint \in DOMAIN enrichments
            THEN "x" \in DOMAIN enrichments[a.fingerprint] =>
                     a.event.x = enrichments[a.fingerprint].x
            ELSE a.event = RawEvent
        AllWin(as) == \A j \in 1..Len(as) : as[j].src # RulesSource => Wins(as[j])
    IN  /\ AllWin(FlushedAlerts)
        /\ AllWin(sync_alerts)
        /\ ppc \in {"batch", "rest"} => AllWin(alerts)

\* a sweep flushed two alerts of one provider that share a fingerprint with an
\* overlay, and both show the overlay's x
C15_Witness ==
    /\ ppc = "returned"
    /\ \E j, k \in 1..Len(FlushedAlerts) :
          /\ j < k
          /\ FlushedAlerts[j].src = FlushedAlerts[k].src
          /\ FlushedAlerts[j].src # WebhookSource
          /\ FlushedAlerts[j].fingerprint = FlushedAlerts[k].fingerprint
          /\ FlushedAlerts[j].fingerprint \in DOMAIN enrichments
          /\ RawEvent.x # enrichments[FlushedAlerts[j].fingerprint].x
          /\ FlushedAlerts[j].event.x = enrichments[FlushedAlerts[j].fingerprint].x
          /\ FlushedAlerts[k].event.x = enrichments[FlushedAlerts[k].fingerprint].x

\* the call of the j-th write read the overlay after the write before it, and nothing
\* was written between its read and its write
Serial(j) == oplog[j].req.read_at = j - 1

Without(list, v) == SelectSeq(list, LAMBDA e : e # v)

\* C16: a delete_alert call with restore false and then one with restore true, for the
\* same lastReceived and with no other write between or during them, leave a deleted
\* sequence that does not hold that lastReceived and whose other entries are those of
\* before the first call, whatever the overlay was.
C16_DeleteRestoreRoundTrip ==
    \A k \in 1..(Len(oplog) - 1) :
        LET a == oplog[k].req
            b == oplog[k + 1].req
            deleted == DeletedOf(oplog[k + 1].after)
        IN  ( /\ a.handler = "delete_alert" /\ ~a.flag
              /\ b.handler = "delete_alert" /\ b.flag
              /\ a.lastReceived = b.lastReceived
              /\ Serial(k) /\ Serial(k + 1) )
            => /\ ~In(a.lastReceived, deleted)
               /\ Without(deleted, a.lastReceived)
                     = Without(DeletedOf(a.seen), a.lastReceived)

\* C17: two assign_alert calls for the same lastReceived and user, with no other write
\* between or during them, leave the overlay the first one left; an unassign of a
\* lastReceived that has no assignee in the overlay it read and wrote over leaves the
\* assignees as they were, and the call returns {"status": "ok"}, as does an assign
\* whose email could not be sent.
C17_AssignIdempotent ==
    /\ \A k \in 1..(Len(oplog) - 1) :
          LET a == oplog[k].req
              b == oplog[k + 1].req
          IN  ( /\ a.handler = "assign_alert" /\ ~a.flag
                /\ b.handler = "assign_alert" /\ ~b.flag
                /\ a.lastReceived = b.lastReceived
                /\ a.user_email = b.user_email
                /\ Serial(k) /\ Serial(k + 1) )
              => oplog[k + 1].after = oplog[k].after
    /\ \A j \in 1..Len(oplog) :
          LET b == oplog[j].req
          IN  ( /\ b.handler = "assign_alert" /\ b.flag
                /\ Serial(j)
                /\ b.lastReceived \notin DOMAIN AssigneesOf(b.seen) )
              => AssigneesOf(oplog[j].after) = AssigneesOf(b.seen)
    /\ \A j \in 1..Len(oplog) :
          oplog[j].req.handler = "assign_alert" => requests[oplog[j].r].rpc = "returned"

\* t2 was assigned twice, in an overlay that has an assignee of t1, and then nothing
\* is left in flight
C17_Witness ==
    /\ Len(oplog) = 2
    /\ oplog[1].req.handler = "assign_alert" /\ ~oplog[1].req.flag
    /\ oplog[2].req.handler = "assign_alert" /\ ~oplog[2].req.flag
    /\ oplog[1].req.lastReceived = "t2"
    /\ oplog[2].req.lastReceived = "t2"
    /\ Serial(1) /\ Serial(2)
    /\ "t1" \in DOMAIN AssigneesOf(oplog[1].req.seen)
    /\ "t2" \notin DOMAIN AssigneesOf(oplog[1].req.seen)
    /\ oplog[2].mail = "failed"
    /\ enrichments[OverlayFingerprint] = oplog[1].after
    /\ \A r \in 1..Len(requests) : requests[r].rpc = "returned"

\* C18: there is no version check: every write stores, under the keys it writes, what
\* its call computed from the overlay that call read, whatever was written to the
\* overlay since; so of two calls that read the same overlay, the one that writes last
\* leaves an overlay without the other's effect.
C18_LastWriterWins ==
    \A j \in 1..Len(oplog) :
        LET b == oplog[j].req
        IN  /\ b.handler = "assign_alert" =>
                  AssigneesOf(oplog[j].after) =
                      Assign(AssigneesOf(b.seen), b.lastReceived, b.user_email, b.flag)
            /\ b.handler = "delete_alert" =>
                  /\ DeletedOf(oplog[j].after) =
                         MarkDeleted(DeletedOf(b.seen), b.lastReceived, b.flag)
                  /\ AssigneesOf(oplog[j].after) =
                         DefaultAssignee(AssigneesOf(b.seen), b.lastReceived,
                                         b.user_email)

\* two assign_alert calls for different lastReceived values both read the overlay
\* before either wrote; both returned; the overlay has the assignee of the second
\* writer only, although the first writer's had been written
C18_Witness ==
    /\ Len(oplog) = 2
    /\ oplog[1].req.handler = "assign_alert" /\ ~oplog[1].req.flag
    /\ oplog[2].req.handler = "assign_alert" /\ ~oplog[2].req.flag
    /\ oplog[1].req.lastReceived # oplog[2].req.lastReceived
    /\ oplog[2].req.read_at = 0
    /\ oplog[1].req.lastReceived \notin DOMAIN AssigneesOf(oplog[1].req.seen)
    /\ oplog[1].req.lastReceived \in DOMAIN AssigneesOf(oplog[1].after)
    /\ oplog[1].req.lastReceived \notin DOMAIN AssigneesOf(enrichments[OverlayFingerprint])
    /\ oplog[2].req.lastReceived \in DOMAIN AssigneesOf(enrichments[OverlayFingerprint])
    /\ \A r \in 1..Len(requests) : requests[r].rpc = "returned"

\* the positions in the sink of the messages of the given event
MessagesOf(event) == {m \in 1..Len(sink) : sink[m].event = event}

\* C19: an async sweep that got past the configuration check and the enumeration of
\* the installed providers, and has ended otherwise than by the async-done publish
\* itself raising, has published async-done with the empty object exactly once, after
\* every async-alerts message, whatever its providers did; a sync sweep has published
\* no async-done.
C19_AsyncDoneOnceAndLast ==
    /\ (~sync /\ ppc \in {"returned", "raised"}
              /\ perr \notin {"config", "enumerate", "async_done"})
       => /\ Cardinality(MessagesOf("async-done")) = 1
          /\ sink[Len(sink)] = Trigger("async-done", EmptyObject)
    /\ sync => MessagesOf("async-done") = {}

\* C20: with no sink and sync false the call raises the configuration error at once:
\* no provider was enumerated, instantiated or pulled and nothing was published. The
\* configuration error is raised in no other case: with no sink and sync true the
\* sweep runs.
C20_ConfigErrorFirst ==
    /\ (~pusher /\ ~sync /\ ppc # "call")
       => /\ ppc = "raised" /\ perr = "config"
          /\ installed = 0 /\ idx = 0
          /\ DOMAIN pulled = {} /\ DOMAIN outcome = {}
          /\ sink = <<>> /\ sync_alerts = <<>>
    /\ perr = "config" => ~pusher /\ ~sync
    /\ (~pusher /\ sync /\ ppc \in {"returned", "raised"}) => perr # "config"

\* a call that raised the configuration error, having done nothing else
C20_Witness ==
    /\ ~pusher /\ ~sync
    /\ ppc = "raised"
    /\ perr = "config"
    /\ sink = <<>>

---------------------------------------------------------------------------
(* C21..C30 *)

IsError(answer) == answer \in {"400", "500"}

\* C21: when the sweep of a get_all_alerts request raises the configuration error,
\* the request is answered with an error.
C21_ConfigErrorSurfaced == perr = "config" => IsError(response)

\* the raw alerts a normalizer is to return the canonical alerts of: the well-formed
\* ones, and of these __extract_rules keeps the first of each rule
Usable(op, payload) ==
    SelectSeq(payload,
              LAMBDA a : /\ a.wellformed
                         /\ op = "__extract_rules" =>
                               ~\E h \in 1..(a.n - 1) :
                                   payload[h].wellformed /\ payload[h].rule = a.rule)

\* C22: each normalizing operation, given a payload it could read, returns without
\* raising, and returns the canonical alerts of exactly the well-formed alerts of the
\* payload, in order (of each rule the first one, for __extract_rules).
C22_MalformedAlertSkipped ==
    (npc = "done" /\ body = "json")
    => /\ ~result.raised
       /\ IdsOf(result.alerts) = IdsOf(Usable(operation, raws))

\* what the sweep's providers returned, in enumeration order, of those that succeeded
RECURSIVE SucceededUpTo(_)
SucceededUpTo(p) ==
    IF p = 0 THEN <<>>
    ELSE SucceededUpTo(p - 1)
         \o (IF p \in DOMAIN outcome /\ outcome[p] = "ok" THEN pulled[p] ELSE <<>>)

Origins(as) == [j \in 1..Len(as) |-> <<as[j].src, as[j].n>>]

\* C23: the list a synchronous sweep returns is, alert for alert, the concatenation
\* in enumeration order of what each successful provider returned.
C23_SyncConcatenation ==
    (sync /\ ppc = "returned") => Origins(sync_alerts) = Origins(SucceededUpTo(installed))

\* a synchronous sweep returned the alerts of two providers, two of them of one
\* provider
C23_Witness ==
    /\ sync
    /\ ppc = "returned"
    /\ installed = 2
    /\ outcome[1] = "ok" /\ outcome[2] = "ok"
    /\ Len(pulled[1]) + Len(pulled[2]) = 3
    /\ Len(sync_alerts) = 3

\* C24: the single-alert messages of Stage A are, in publish order, those of the
\* alerts whose publish returned, in input order; and after a publish that raised
\* the next alert of the input is processed.
C24_StageAInInputOrder ==
    /\ IdsOf(From(FlushedAlerts, WebhookSource)) =
          IdsOf(SelectSeq(formatted_events,
                          LAMBDA a : \E c \in 1..Len(calls) :
                                         calls[c] = Call("trigger", a.n, TRUE)))
    /\ \A f \in 1..(Len(formatted_events) - 1) :
          (Failed("trigger", f) /\ ipc # "stageA")
          => \E c \in 1..Len(calls) : calls[c].op = "add" /\ calls[c].at = f + 1

\* the publish of the first alert raised, and the second alert is in the live feed
C24_Witness ==
    /\ ipc = "returned"
    /\ Len(formatted_events) = 2
    /\ Failed("trigger", 1)
    /\ IdsOf(From(FlushedAlerts, WebhookSource)) = <<2>>
    /\ stageA = "ok"

\* C25: a receive_event request whose payload holds no alerts is answered success
\* and adds no task; in a sweep, the enrichment lookup, the routing to the sync
\* result and the batch publisher are reached only with a non-empty pulled list, and
\* a provider that returned no alerts ends its iteration as "empty", with nothing of
\* it in the sync result or in the live feed.
C25_ZeroAlertsNoWork ==
    /\ (operation = "receive_event" /\ npc = "done" /\ body = "json" /\ raws = <<>>)
       => response = "ok" /\ bg_tasks = <<>>
    /\ ppc \in {"enrich", "batch", "rest"} => alerts # <<>>
    /\ \A p \in DOMAIN outcome \cap DOMAIN pulled :
          (outcome[p] # "pull_failed" /\ pulled[p] = <<>>)
          => /\ outcome[p] = "empty"
             /\ From(sync_alerts, Provider(p)) = <<>>
             /\ From(FlushedAlerts, Provider(p)) = <<>>

\* an empty webhook payload was answered success with no task added
C25_Witness ==
    /\ operation = "receive_event"
    /\ npc = "done"
    /\ body = "json"
    /\ raws = <<>>
    /\ ~result.raised
    /\ response = "ok"
    /\ bg_tasks = <<>>

\* C26: a receive_event request whose body is not JSON, or whose payload the format
\* step raises on, is answered with an error and adds no task; a task is added only
\* with the non-empty list the format step returned.
C26_MalformedInputRejected ==
    (operation = "receive_event" /\ npc = "done")
    => /\ (body # "json" \/ result.raised) => IsError(response) /\ bg_tasks = <<>>
       /\ \A t \in 1..Len(bg_tasks) :
             /\ bg_tasks[t].task = "handle_formatted_events"
             /\ bg_tasks[t].args # <<>>
             /\ ~result.raised
             /\ bg_tasks[t].args = result.alerts

\* the format step raised on the second alert of a payload, and the request was
\* answered 400 with no task added
C26_Witness ==
    /\ operation = "receive_event"
    /\ npc = "done"
    /\ Len(raws) >= 2
    /\ raws[1].wellformed /\ ~raws[2].wellformed
    /\ result.raised
    /\ response = "400"
    /\ bg_tasks = <<>>

\* C27: a delete_alert call that no other write interleaves with leaves every
\* assignee entry of the overlay it read as it was, and adds one entry, the acting
\* user for the given lastReceived, exactly when that lastReceived had none; this
\* with restore false and with restore true.
C27_DeleteKeepsAssignees ==
    \A j \in 1..Len(oplog) :
        LET b == oplog[j].req
            before == AssigneesOf(b.seen)
            after == AssigneesOf(oplog[j].after)
        IN  (b.handler = "delete_alert" /\ Serial(j))
            => /\ \A l \in DOMAIN before : l \in DOMAIN after /\ after[l] = before[l]
               /\ DOMAIN after = DOMAIN before \cup {b.lastReceived}
               /\ b.lastReceived \notin DOMAIN before => after[b.lastReceived] = b.user_email

\* t1, deleted and assigned to another user, was restored: it is no longer deleted
\* and its assignee is the same
C27_Witness ==
    /\ Len(oplog) >= 1
    /\ oplog[1].req.handler = "delete_alert"
    /\ oplog[1].req.flag
    /\ oplog[1].req.lastReceived = "t1"
    /\ In("t1", DeletedOf(oplog[1].req.seen))
    /\ AssigneesOf(oplog[1].req.seen) = "t1" :> OtherUser
    /\ ~In("t1", DeletedOf(oplog[1].after))
    /\ AssigneesOf(oplog[1].after) = "t1" :> OtherUser

\* C28: when a provider's batch publisher has ended and its last addition was
\* accepted as within the ceiling, the candidate batch is the last message published.
C28_FinalBatchFlushed ==
    ( /\ ~sync /\ ppc = "for"
      /\ (idx - 1) \in DOMAIN outcome /\ outcome[idx - 1] = "ok"
      /\ new_compressed_batch # EmptyString
      /\ WithinCeiling(new_compressed_batch) )
    => /\ sink # <<>>
       /\ sink[Len(sink)] = Trigger("async-alerts", new_compressed_batch)

\* C29: no async-alerts message holds an alert whose own encoding exceeds the ceiling.
C29_OversizedNeverFlushed ==
    \A j \in 1..Len(FlushedAlerts) : Encode(<<FlushedAlerts[j]>>).len <= Ceiling

\* a sweep pulled an oversized alert after one that fits, published a message, and
\* returned
C29_Witness ==
    /\ ~sync
    /\ ppc = "returned"
    /\ \E p \in DOMAIN pulled :
          /\ Len(pulled[p]) >= 2
          /\ outcome[p] = "ok"
          /\ Encode(<<pulled[p][1]>>).len <= Ceiling
          /\ Encode(<<pulled[p][2]>>).len > Ceiling
    /\ FlushedAlerts # <<>>

\* C30: every async-alerts message of a sweep carries a non-empty list of alerts.
C30_NoEmptyPayload ==
    \A m \in 1..Len(sink) :
        sink[m].event = "async-alerts"
        => sink[m].payload # EmptyString /\ sink[m].payload.alerts # <<>>

(***************************************************************************)
(* C31..C33                                                                *)
(***************************************************************************)

\* the calls made on the session's commit
Commits == SelectSeq(calls, LAMBDA c : c.op = "commit")

\* the alerts of the call that have a committed row, in the order of the rows
PersistedIds == [r \in 1..Len(db_alerts) |-> db_alerts[r].event.n]

\* C31: persistence within one handle_formatted_events call is all-or-nothing: there
\* is at most one commit, made after the last alert of the call has been added and
\* before Stage A ends; no row is committed before it, and once Stage A has ended
\* either every alert of the call has a committed row or none has.
C31_AllOrNothing ==
    /\ Len(Commits) <= 1
    /\ \A c \in 1..Len(calls) :
          calls[c].op = "commit" =>
              /\ \A j \in 1..Len(formatted_events) :
                    \E b \in 1..(c - 1) : calls[b] = Call("add", j, TRUE)
              /\ \A b \in 1..(c - 1) : calls[b].ok \/ calls[b].op = "trigger"
              /\ \A b \in (c + 1)..Len(calls) : StageOf(calls[b]) > 1
    /\ Commits = <<>> => db_alerts = <<>>
    /\ stageA # "pending" =>
          \/ PersistedIds = IdsOf(formatted_events)
          \/ db_alerts = <<>>
    /\ stageA = "ok" <=> Commits = <<Call("commit", 0, TRUE)>>
    /\ stageA = "ok" => PersistedIds = IdsOf(formatted_events)
    /\ stageA = "failed" => db_alerts = <<>>

\* the first of two alerts was added to the session, the add of the second raised,
\* and the call returned with no committed row
C31_Witness ==
    /\ ipc = "returned"
    /\ Len(formatted_events) = 2
    /\ calls[1] = Call("add", 1, TRUE)
    /\ Failed("add", 2)
    /\ Len(session_new) = 1
    /\ db_alerts = <<>>

\* no value stands at two places of the list
NoDuplicates(list) ==
    \A a \in 1..Len(list) : \A b \in 1..Len(list) : list[a] = list[b] => a = b

\* C32: after any sequence of delete_alert calls on a fingerprint, made one after the
\* other with restore false or true and any lastReceived values, the overlay's
\* deleted sequence holds no lastReceived value more than once.
C32_DeletedHasNoDuplicates ==
    \A j \in 1..Len(oplog) :
        (\A h \in 1..j : oplog[h].req.handler = "delete_alert" /\ Serial(h))
        => NoDuplicates(DeletedOf(oplog[j].after))

\* C33: a sweep with sync true publishes nothing to the live feed, no async-alerts and
\* no async-done message, and never uses the sink: it never enters the batch loop or
\* the final flush, no provider of it ends by a failed publish, and it raises neither
\* the configuration error nor a failure of the async-done publish, with a sink
\* configured or without one.
C33_SyncPublishesNothing ==
    sync =>
        /\ sink = <<>>
        /\ MessagesOf("async-alerts") = {} /\ MessagesOf("async-done") = {}
        /\ ppc \notin {"batch", "rest"}
        /\ batch_send = <<>> /\ number_of_alerts_in_batch = 0
        /\ \A p \in DOMAIN outcome : outcome[p] # "publish_failed"
        /\ perr \notin {"config", "async_done"}

\* a sync sweep with no sink configured has returned alerts of two providers
C33_Witness ==
    /\ sync /\ ~pusher
    /\ ppc = "returned"
    /\ installed = 2
    /\ outcome[1] = "ok" /\ outcome[2] = "ok"
    /\ sync_alerts # <<>>
    /\ sink = <<>>

====
